---- MODULE Spec2Model ----
(***************************************************************************)
(* FlexiMart ETL (part1-database-etl/etl_pipeline.py): the field           *)
(* normalizers, transform_customers, transform_products, transform_sales   *)
(* and load_orders_and_items, as operators over in-memory tables, and the  *)
(* calls of them as actions.                                               *)
(*                                                                         *)
(* A string is a tuple of one-character strings (<<"1","0">> is "10"), so  *)
(* that trimming, parsing and formatting are computed character by         *)
(* character.  NULL stands for pandas' missing value (None / NaN).  A      *)
(* table (DataFrame) is a record [cols, rows]: the set of its column names *)
(* and the sequence of its rows, each row a function from column name to   *)
(* cell.  The store of the load stage is a record of its dialect, its      *)
(* four tables and the next order id it generates.                         *)
(***************************************************************************)
EXTENDS Integers, Sequences, FiniteSets, TLC

\* ------------------------------------------------------------------------
\* State: the tables handed in, the clock, the results of the calls made
\* ------------------------------------------------------------------------

VARIABLES
    sales,      \* the raw sales table
    customers,  \* the customers table (raw for transform_customers)
    products,   \* the products table
    today,      \* datetime.today() as a YYYY-MM-DD string
    arg,        \* the value handed to a field normalizer
    store,      \* the relational store the load stage writes to
    runs        \* the results of the calls made so far, in call order

vars == <<sales, customers, products, today, arg, store, runs>>

\* ------------------------------------------------------------------------
\* Strings and numbers
\* ------------------------------------------------------------------------

NULL == <<"<NA>">>

EMPTY == <<>>

\* pd.isna on a scalar
isna(v) == v = NULL

Digits == <<"0", "1", "2", "3", "4", "5", "6", "7", "8", "9">>

IsDigit(c) == \E i \in 1..Len(Digits) : Digits[i] = c

DigitVal(c) == (CHOOSE i \in 1..Len(Digits) : Digits[i] = c) - 1

AllDigits(s) == \A i \in 1..Len(s) : IsDigit(s[i])

RECURSIVE NatOf(_)
\* the value of a run of digits (0 for the empty run)
NatOf(s) == IF s = <<>> THEN 0
            ELSE 10 * NatOf(SubSeq(s, 1, Len(s) - 1)) + DigitVal(s[Len(s)])

RECURSIVE NatToChars(_)
\* str(n) for n >= 0
NatToChars(n) == IF n < 10 THEN <<Digits[n + 1]>>
                 ELSE NatToChars(n \div 10) \o <<Digits[(n % 10) + 1]>>

\* str(n) for an integer n
IntToChars(n) == IF n < 0 THEN <<"-">> \o NatToChars(-n) ELSE NatToChars(n)

\* n zero-padded to at least w digits, as %02d / %04d do
RECURSIVE ZeroPad(_, _)
ZeroPad(s, w) == IF Len(s) >= w THEN s ELSE ZeroPad(<<"0">> \o s, w)

IsSpace(c) == c \in {" "}

RECURSIVE lstrip(_)
lstrip(s) == IF s # <<>> /\ IsSpace(Head(s)) THEN lstrip(Tail(s)) ELSE s

RECURSIVE rstrip(_)
rstrip(s) == IF s # <<>> /\ IsSpace(s[Len(s)])
             THEN rstrip(SubSeq(s, 1, Len(s) - 1)) ELSE s

\* str.strip()
strip(s) == rstrip(lstrip(s))

\* the position of the first c in s, 0 when there is none
IndexOf(s, c) == IF \E i \in 1..Len(s) : s[i] = c
                 THEN CHOOSE i \in 1..Len(s) :
                          s[i] = c /\ \A j \in 1..(i - 1) : s[j] # c
                 ELSE 0

\* Python's float(str), on the literals the model draws: an optional sign,
\* digits with an optional fraction of at most three digits, or "inf".
\* The value is held in thousandths (m); inf marks an infinity.
\* ok = FALSE is the ValueError.
\* the thousandths of the digits ip before and fp after the point
Thousandths(ip, fp) ==
    1000 * NatOf(ip) + NatOf(fp \o SubSeq(<<"0", "0", "0">>, 1, 3 - Len(fp)))

\* the float of sign sgn (1 or -1), integer digits ip and fraction digits fp
FloatOfDigits(sgn, ip, fp) ==
    IF AllDigits(ip) /\ AllDigits(fp) /\ Len(ip) + Len(fp) > 0 /\ Len(fp) <= 3
    THEN [ok |-> TRUE, inf |-> FALSE, m |-> sgn * Thousandths(ip, fp)]
    ELSE [ok |-> FALSE, inf |-> FALSE, m |-> 0]

\* the float of sign sgn and unsigned literal u, whose point is at k (0: none)
FloatOfUnsigned(sgn, u, k) ==
    IF u = <<"i", "n", "f">> THEN [ok |-> TRUE, inf |-> TRUE, m |-> sgn]
    ELSE FloatOfDigits(sgn,
                       IF k = 0 THEN u ELSE SubSeq(u, 1, k - 1),
                       IF k = 0 THEN <<>> ELSE SubSeq(u, k + 1, Len(u)))

\* the float of sign sgn and unsigned literal u
FloatOfSigned(sgn, u) == FloatOfUnsigned(sgn, u, IndexOf(u, "."))

\* the float of a literal without surrounding blanks
FloatOfStripped(t) ==
    FloatOfSigned(IF t # <<>> /\ Head(t) = "-" THEN -1 ELSE 1,
                  IF t # <<>> /\ Head(t) \in {"+", "-"} THEN Tail(t) ELSE t)

float(s) == FloatOfStripped(strip(s))

\* thousandths rounded to hundredths, as the "%.2f" conversion rounds (the
\* literals of the model hold no tie)
RoundCents(m) == IF m >= 0 THEN (m + 5) \div 10 ELSE -((-m + 5) \div 10)

\* f"{val:.2f}" of a number of cents
FormatCents(c) ==
    LET a == IF c < 0 THEN -c ELSE c
    IN  (IF c < 0 THEN <<"-">> ELSE <<>>)
        \o NatToChars(a \div 100) \o <<".">> \o ZeroPad(NatToChars(a % 100), 2)

\* f"{val:.2f}" of a parsed float
Format2f(v) == IF v.inf
               THEN (IF v.m < 0 THEN <<"-">> ELSE <<>>) \o <<"i", "n", "f">>
               ELSE FormatCents(RoundCents(v.m))

\* ------------------------------------------------------------------------
\* Field normalizers
\* ------------------------------------------------------------------------

\* re.sub(r"\D", "", s)
OnlyDigits(s) == SelectSeq(s, IsDigit)

\* s[-10:]
Last10(s) == IF Len(s) <= 10 THEN s ELSE SubSeq(s, Len(s) - 9, Len(s))

PhonePrefix == <<"+", "9", "1", "-">>

\* Faulty variant: only the two documented shapes, no last-ten fallback.
normalize_phone_to_india_strict(phone_raw) ==
    IF isna(phone_raw) THEN EMPTY
    ELSE IF Len(OnlyDigits(phone_raw)) = 10 THEN PhonePrefix \o OnlyDigits(phone_raw)
    ELSE IF Len(OnlyDigits(phone_raw)) = 12
            /\ SubSeq(OnlyDigits(phone_raw), 1, 2) = <<"9", "1">>
    THEN PhonePrefix \o Last10(OnlyDigits(phone_raw))
    ELSE EMPTY

normalize_phone_to_india(phone_raw) ==
    IF isna(phone_raw) THEN EMPTY
    ELSE LET digits == OnlyDigits(phone_raw)
         IN  IF Len(digits) = 10 THEN PhonePrefix \o digits
             ELSE IF Len(digits) = 12 /\ SubSeq(digits, 1, 2) = <<"9", "1">>
             THEN PhonePrefix \o Last10(digits)
             ELSE IF Len(digits) > 10 /\ Len(Last10(digits)) = 10
             THEN PhonePrefix \o Last10(digits)
             ELSE EMPTY

RECURSIVE SplitOn(_, _)
\* s.split(sep) for a one-character separator
SplitOn(s, sep) ==
    LET k == IndexOf(s, sep)
    IN  IF k = 0 THEN <<s>>
        ELSE <<SubSeq(s, 1, k - 1)>> \o SplitOn(SubSeq(s, k + 1, Len(s)), sep)

IsLeap(y) == (y % 4 = 0 /\ y % 100 # 0) \/ y % 400 = 0

DaysInMonth(y, m) == IF m = 2 THEN (IF IsLeap(y) THEN 29 ELSE 28)
                     ELSE IF m \in {4, 6, 9, 11} THEN 30 ELSE 31

\* one directive of datetime.strptime against one field of the string:
\* %Y is four digits, %m and %d one or two digits in range
FieldOk(d, f) ==
    /\ f # <<>>
    /\ AllDigits(f)
    /\ IF d = "Y" THEN Len(f) = 4 /\ NatOf(f) >= 1
       ELSE IF d = "m" THEN Len(f) <= 2 /\ NatOf(f) \in 1..12
       ELSE Len(f) <= 2 /\ NatOf(f) \in 1..31

\* the position of directive d in the format's field order
FieldAt(order, d) == CHOOSE i \in 1..3 : order[i] = d

\* datetime.strptime(s, fmt): fmt is its three directives in order and its
\* separator.  ok = FALSE is the ValueError.
strptime(s, fmt) ==
    LET parts == SplitOn(s, fmt.sep)
        y == NatOf(parts[FieldAt(fmt.order, "Y")])
        m == NatOf(parts[FieldAt(fmt.order, "m")])
        d == NatOf(parts[FieldAt(fmt.order, "d")])
    IN  IF Len(parts) = 3
           /\ (\A i \in 1..3 : FieldOk(fmt.order[i], parts[i]))
           /\ d <= DaysInMonth(y, m)
        THEN [ok |-> TRUE, y |-> y, m |-> m, d |-> d]
        ELSE [ok |-> FALSE, y |-> 0, m |-> 0, d |-> 0]

\* dt.strftime("%Y-%m-%d")
strftime(dt) == ZeroPad(NatToChars(dt.y), 4) \o <<"-">>
                \o ZeroPad(NatToChars(dt.m), 2) \o <<"-">>
                \o ZeroPad(NatToChars(dt.d), 2)

\* Faulty variant: the month-first patterns before the day-first ones.
fmts_month_first == << [order |-> <<"Y", "m", "d">>, sep |-> "-"],
                       [order |-> <<"m", "d", "Y">>, sep |-> "-"],
                       [order |-> <<"m", "d", "Y">>, sep |-> "/"],
                       [order |-> <<"d", "m", "Y">>, sep |-> "-"],
                       [order |-> <<"d", "m", "Y">>, sep |-> "/"] >>

\* fmts of parse_date_to_iso, in its order
fmts == << [order |-> <<"Y", "m", "d">>, sep |-> "-"],
           [order |-> <<"d", "m", "Y">>, sep |-> "-"],
           [order |-> <<"d", "m", "Y">>, sep |-> "/"],
           [order |-> <<"m", "d", "Y">>, sep |-> "-"],
           [order |-> <<"m", "d", "Y">>, sep |-> "/"] >>

\* pd.to_datetime(s, errors="raise", dayfirst=False) on what the explicit
\* formats left over: of the strings the model draws it reads the
\* year-first form with slashes (2025/12/30) and raises on the others
to_datetime(s) == strptime(s, [order |-> <<"Y", "m", "d">>, sep |-> "/"])

\* Faulty variant: today's date where the date does not parse, the default
\* transform_customers applies at line 279, moved into the parser.
parse_date_to_iso_or_today(date_raw) ==
    LET s == IF isna(date_raw) THEN EMPTY ELSE strip(date_raw)
        hits == {i \in 1..Len(fmts) : strptime(s, fmts[i]).ok}
    IN  IF hits # {}
        THEN strftime(strptime(s, fmts[CHOOSE i \in hits : \A j \in hits : i <= j]))
        ELSE today

parse_date_to_iso(date_raw) ==
    IF isna(date_raw) THEN EMPTY
    ELSE LET s    == strip(date_raw)
             hits == {i \in 1..Len(fmts) : strptime(s, fmts[i]).ok}
             i0   == CHOOSE i \in hits : \A j \in hits : i <= j
         IN  IF s = EMPTY THEN EMPTY
             ELSE IF hits # {} THEN strftime(strptime(s, fmts[i0]))
             ELSE IF to_datetime(s).ok THEN strftime(to_datetime(s))
             ELSE EMPTY

\* None when invalid, else the two-decimal string
safe_to_decimal(s) ==
    IF isna(s) THEN NULL
    ELSE IF float(s).ok THEN Format2f(float(s)) ELSE NULL

\* int(float(str(s).strip())), default when null, blank, unparseable or
\* infinite (OverflowError); int() truncates towards zero
safe_to_int(s, default) ==
    IF isna(s) \/ strip(s) = EMPTY THEN default
    ELSE LET v == float(strip(s))
         IN  IF ~v.ok \/ v.inf THEN default
             ELSE IF v.m >= 0 THEN v.m \div 1000 ELSE -((-v.m) \div 1000)

\* safe_to_int(s, default=None) is not None
parses_as_int(s) ==
    ~(isna(s) \/ strip(s) = EMPTY) /\ float(strip(s)).ok /\ ~float(strip(s)).inf

\* ------------------------------------------------------------------------
\* DataFrames
\* ------------------------------------------------------------------------

\* Series.get / dict.get: None for an absent key
Get(r, c) == IF c \in DOMAIN r THEN r[c] ELSE NULL

\* df[c] = v on one row
With(r, c, v) == [k \in (DOMAIN r) \cup {c} |-> IF k = c THEN v ELSE r[k]]

\* the rows at the positions in keep, in their order
SelectIdx(rows, keep) ==
    LET F[i \in 0..Len(rows)] ==
            IF i = 0 THEN <<>>
            ELSE IF i \in keep THEN F[i - 1] \o <<rows[i]>> ELSE F[i - 1]
    IN  F[Len(rows)]

\* df[c] = df[c].apply(f), for f a function on the cells of the column
ApplyCol(rows, c, f) == [i \in 1..Len(rows) |-> With(rows[i], c, f[rows[i][c]])]

\* the cells of column c
Cells(rows, c) == {rows[i][c] : i \in 1..Len(rows)}

\* df.rename(columns=R) for R a function on the headers
rename(df, R) ==
    LET cols == {R[c] : c \in df.cols}
    IN  [cols |-> cols,
         rows |-> [i \in 1..Len(df.rows) |->
                      [k \in cols |-> df.rows[i][CHOOSE c \in df.cols : R[c] = k]]]]

\* the positions df.drop_duplicates(subset, keep="first") keeps: a row goes
\* when an earlier row has the same cells in every subset column (missing
\* cells count as equal)
FirstOccurrences(rows, subset) ==
    {i \in 1..Len(rows) :
        ~\E j \in 1..(i - 1) : \A c \in subset : rows[j][c] = rows[i][c]}

\* drop_duplicates(df, subset): the rows kept and the count removed
drop_duplicates(rows, subset) ==
    LET df2 == SelectIdx(rows, FirstOccurrences(rows, subset))
    IN  [rows |-> df2, removed |-> Len(rows) - Len(df2)]

\* an exception leaving the function: nothing is returned
Raise(kind, msg) == [kind |-> kind, msg |-> msg]

IsRaise(x) == "msg" \in DOMAIN x

\* Bookkeeping, not data of the program: every row carries in "src" the
\* position it had in the table handed in (the label pandas keeps in the
\* index through the filters), so that a returned line item can be traced
\* to its sales row.
Labelled(rows) == [i \in 1..Len(rows) |-> With(rows[i], "src", i)]

Sources(rows) == {rows[i]["src"] : i \in 1..Len(rows)}

\* set_index(key)[val].to_dict().get(k): the last row with that key wins;
\* keys of another Python type than k (idtype "int" against a str) never
\* equal it
DictGet(table, key, val, k) ==
    LET hits == {i \in 1..Len(table.rows) : table.rows[i][key] = k}
    IN  IF (key \in {"customer_id", "product_id"} /\ table.idtype # "str")
           \/ hits = {}
        THEN NULL
        ELSE table.rows[CHOOSE i \in hits : \A j \in hits : j <= i][val]

\* df.merge(lookup, on=key, how="left") bringing lookup's price in as
\* product_price: one output row per matching lookup row, in lookup order,
\* and one row with a missing product_price when nothing matches
merge_left(rows, lookup, key) ==
    LET Joined(r) ==
            LET m == SelectSeq(lookup, LAMBDA p : p[key] = r[key])
            IN  IF m = <<>> THEN <<With(r, "product_price", NULL)>>
                ELSE [j \in 1..Len(m) |-> With(r, "product_price", m[j]["price"])]
        F[i \in 0..Len(rows)] ==
            IF i = 0 THEN <<>> ELSE F[i - 1] \o Joined(rows[i])
    IN  F[Len(rows)]

\* ------------------------------------------------------------------------
\* transform_customers
\* ------------------------------------------------------------------------

\* {v: k for k, v in CUSTOMERS_COLUMNS.items()}: every header maps to itself
CustomersRename(c) == c

\* ~df[col].isna() & (df[col].str.strip() != "")
not_blank(rows, c) == SelectSeq(rows, LAMBDA r : ~isna(r[c]) /\ strip(r[c]) # EMPTY)

\* Faulty variant: only the email is required.
required_filter_email_only(rows) ==
    LET c == not_blank(rows, "email")
    IN  [rows |-> c, dropped |-> Len(rows) - Len(c)]

\* lines 282-287: rows with a blank required field out, one field at a time
required_filter(rows) ==
    LET a == not_blank(rows, "first_name")
        b == not_blank(a, "last_name")
        c == not_blank(b, "email")
    IN  [rows |-> c, dropped |-> Len(rows) - Len(c)]

\* lines 289-292: fillna("").astype(str).str.strip() on the text columns
trim_strings(rows, cols) ==
    [i \in 1..Len(rows) |->
        [c \in DOMAIN rows[i] |->
            IF c \in {"first_name", "last_name", "email", "city", "phone"} \cap cols
            THEN strip(IF isna(rows[i][c]) THEN EMPTY ELSE rows[i][c])
            ELSE rows[i][c]]]

\* Faulty variant: an empty date is left empty.
fill_today_never(v, t) == v

\* line 279: df.loc[df["registration_date"] == "", ...] = today's date
fill_today(v, t) == IF v = EMPTY THEN t ELSE v

transform_customers(df0) ==
    LET df      == rename(df0, [c \in df0.cols |-> CustomersRename(c)])
        d       == drop_duplicates(Labelled(df.rows), {"email"})
        with_em == not_blank(d.rows, "email")
        phones  == ApplyCol(with_em, "phone",
                            [v \in Cells(with_em, "phone") |-> normalize_phone_to_india(v)])
        no_phone == Cardinality({i \in 1..Len(phones) : phones[i]["phone"] = EMPTY})
        dates   == ApplyCol(phones, "registration_date",
                            [v \in Cells(phones, "registration_date") |-> parse_date_to_iso(v)])
        empty_dates ==
            Cardinality({i \in 1..Len(dates) : dates[i]["registration_date"] = EMPTY})
        dated   == ApplyCol(dates, "registration_date",
                            [v \in Cells(dates, "registration_date") |->
                                fill_today(v, today)])
        req     == required_filter(dated)
        out     == trim_strings(req.rows, df.cols)
    IN  [kind |-> "ok",
         df |-> [i \in 1..Len(out) |-> [c \in df.cols |-> out[i][c]]],
         \* bookkeeping: the raw row behind each returned row
         src |-> [i \in 1..Len(out) |-> out[i]["src"]],
         stats |-> [processed |-> Len(df.rows),
                    duplicates_removed |-> d.removed,
                    missing_handled |-> (Len(d.rows) - Len(with_em)) + no_phone
                                        + empty_dates + req.dropped]]

\* ------------------------------------------------------------------------
\* transform_products
\* ------------------------------------------------------------------------

UpperCase == <<"A", "B", "C", "D", "E", "F", "G", "H", "I", "J", "K", "L", "M",
               "N", "O", "P", "Q", "R", "S", "T", "U", "V", "W", "X", "Y", "Z">>

LowerCase == <<"a", "b", "c", "d", "e", "f", "g", "h", "i", "j", "k", "l", "m",
               "n", "o", "p", "q", "r", "s", "t", "u", "v", "w", "x", "y", "z">>

IsLetter(c) == \E i \in 1..26 : c = UpperCase[i] \/ c = LowerCase[i]

\* c.lower() and c.upper() of one character
LowerOf(c) == IF \E i \in 1..26 : c = UpperCase[i]
              THEN LowerCase[CHOOSE i \in 1..26 : c = UpperCase[i]] ELSE c

UpperOf(c) == IF \E i \in 1..26 : c = LowerCase[i]
              THEN UpperCase[CHOOSE i \in 1..26 : c = LowerCase[i]] ELSE c

\* str.title(): a letter after a letter in lower case, any other letter in
\* upper case
title(s) ==
    [i \in 1..Len(s) |->
        IF i > 1 /\ IsLetter(s[i - 1]) THEN LowerOf(s[i]) ELSE UpperOf(s[i])]

to_title_case(s) == IF isna(s) THEN EMPTY ELSE title(strip(s))

\* {v: k for k, v in PRODUCTS_COLUMNS.items()}: every header maps to itself
ProductsRename(c) == c

DEFAULT_STOCK == 0

\* lines 315-319: the stock parsed with the default, the defaulted cells
\* that are still missing counted (none is: the default is a number)
stock_filled(rows) ==
    [rows |-> [i \in 1..Len(rows) |->
                  With(rows[i], "stock_quantity",
                       safe_to_int(rows[i]["stock_quantity"], DEFAULT_STOCK))],
     missing |-> 0]

\* lines 321-323: fillna("").astype(str).str.strip() on the two text columns
clean_strings(rows) ==
    [i \in 1..Len(rows) |->
        [c \in DOMAIN rows[i] |->
            IF c \in {"product_name", "category"}
            THEN strip(IF isna(rows[i][c]) THEN EMPTY ELSE rows[i][c])
            ELSE rows[i][c]]]

transform_products(df0) ==
    LET df     == rename(df0, [c \in df0.cols |-> ProductsRename(c)])
        d      == drop_duplicates(Labelled(df.rows), {"product_name", "category"})
        cats   == ApplyCol(d.rows, "category",
                           [v \in Cells(d.rows, "category") |-> to_title_case(v)])
        prices == ApplyCol(cats, "price",
                           [v \in Cells(cats, "price") |-> safe_to_decimal(v)])
        priced == SelectSeq(prices, LAMBDA r : ~isna(r["price"]))
        stock  == stock_filled(priced)
        out    == clean_strings(stock.rows)
    IN  [kind |-> "ok",
         df |-> [i \in 1..Len(out) |-> [c \in df.cols |-> out[i][c]]],
         \* bookkeeping: the raw row behind each returned row
         src |-> [i \in 1..Len(out) |-> out[i]["src"]],
         stats |-> [processed |-> Len(df.rows),
                    duplicates_removed |-> d.removed,
                    missing_handled |-> (Len(prices) - Len(priced)) + stock.missing]]

\* ------------------------------------------------------------------------
\* transform_sales
\* ------------------------------------------------------------------------

DEFAULT_ORDER_STATUS == <<"P", "e", "n", "d", "i", "n", "g">>

\* {v: k for k, v in SALES_COLUMNS.items()}
SalesRename(c) == IF c = "transaction_id" THEN "order_id"
                  ELSE IF c = "transaction_date" THEN "order_date"
                  ELSE c

\* Faulty variant: the error without the columns found.
missing_columns_error_bare(cols) == Raise("KeyError", <<"Found columns", {}>>)

\* line 345
missing_columns_error(cols) == Raise("KeyError", <<"Found columns", cols>>)

has_name_cols(cols) == {"customer_email", "product_name"} \subseteq cols

has_id_cols(cols) == {"customer_id", "product_id"} \subseteq cols

\* Faulty variant: the key columns alone, without date, quantity and price.
subset_cols_keys_only(by_id) ==
    IF by_id THEN {"customer_id", "product_id"}
    ELSE {"customer_email", "product_name"}

subset_cols(by_id) ==
    IF by_id
    THEN {"customer_id", "product_id", "order_date", "quantity", "unit_price"}
    ELSE {"customer_email", "product_name", "order_date", "quantity", "unit_price"}

\* Faulty variant: every row passes, dated or not.
has_order_date_any(r) == TRUE

\* line 360: df["order_date"].str.strip() != ""
has_order_date(r) == strip(r["order_date"]) # EMPTY

\* lines 348-362: duplicates out, dates normalized, rows without a date out
sales_dedup_dates(df, by_id, stats) ==
    LET d      == drop_duplicates(df.rows, subset_cols(by_id))
        dated  == ApplyCol(d.rows, "order_date",
                           [v \in Cells(d.rows, "order_date") |-> parse_date_to_iso(v)])
        kept   == SelectSeq(dated, LAMBDA r : has_order_date(r))
    IN  [cols |-> df.cols, rows |-> kept,
         stats |-> [stats EXCEPT
                      !.duplicates_removed = @ + d.removed,
                      !.missing_handled = @ + (Len(dated) - Len(kept))]]

\* is_series_numeric: some value is present and every present value parses
is_series_numeric(rows, c) ==
    LET present == SelectSeq(rows, LAMBDA r : ~isna(r[c]))
    IN  present # <<>> /\ \A i \in 1..Len(present) : parses_as_int(present[i][c])

\* str(x) of a cell of a string column (astype(str)): a missing cell reads nan
AsStr(v) == IF isna(v) THEN <<"n", "a", "n">> ELSE v

\* truthiness of an optional string: neither None nor ""
Truthy(v) == ~isna(v) /\ v # EMPTY

\* line 397: the row is taken (not skipped by continue)
row_translates(r) ==
    /\ Truthy(Get(r, "customer_email"))
    /\ Truthy(Get(r, "product_name"))
    /\ parses_as_int(Get(r, "quantity"))
    /\ safe_to_int(Get(r, "quantity"), 0) > 0

\* lines 399-410: the name-based row built from a sales row that is taken
translate_row(r, products_df, has_price_map) ==
    LET prod_name == Get(r, "product_name")
        unit0     == safe_to_decimal(Get(r, "unit_price"))
    IN  [order_id |-> Get(r, "order_id"),
         order_date |-> Get(r, "order_date"),
         customer_email |-> Get(r, "customer_email"),
         product_name |-> prod_name,
         quantity |-> safe_to_int(Get(r, "quantity"), 0),
         unit_price |-> IF isna(unit0) /\ has_price_map
                        THEN DictGet(products_df, "product_name", "price", prod_name)
                        ELSE unit0,
         status |-> IF "status" \in DOMAIN r THEN r["status"] ELSE EMPTY,
         src |-> r["src"]]

\* compute_unit_price / compute_unit_price_id: the row's own price
\* reformatted, the product's price when the row has none
compute_unit_price(u, p) ==
    IF isna(u) THEN p
    ELSE IF float(u).ok THEN Format2f(float(u)) ELSE p

\* lines 437-457 and 478-501: the product price joined in on key, the unit
\* price computed, rows without one out
attach_prices(rows, products_df, key) ==
    LET lookup == IF {key, "price"} \subseteq products_df.cols
                  THEN products_df.rows ELSE <<>>
        merged == merge_left(rows, lookup, key)
        priced == [i \in 1..Len(merged) |->
                     With(merged[i], "unit_price",
                          compute_unit_price(safe_to_decimal(merged[i]["unit_price"]),
                                             merged[i]["product_price"]))]
    IN  [priced |-> priced,
         kept |-> SelectSeq(priced, LAMBDA r : ~isna(r["unit_price"]))]

\* lines 421-457: the numeric id path
sales_numeric_path(f, products_df) ==
    LET with_ids == SelectSeq(f.rows, LAMBDA r :
                        parses_as_int(r["customer_id"]) /\ parses_as_int(r["product_id"]))
        ids      == [i \in 1..Len(with_ids) |->
                       With(With(with_ids[i],
                                 "customer_id", safe_to_int(with_ids[i]["customer_id"], 0)),
                            "product_id", safe_to_int(with_ids[i]["product_id"], 0))]
        with_qty == SelectSeq(ids, LAMBDA r :
                        parses_as_int(r["quantity"]) /\ safe_to_int(r["quantity"], 0) > 0)
        qty      == [i \in 1..Len(with_qty) |->
                       With(with_qty[i], "quantity", safe_to_int(with_qty[i]["quantity"], 0))]
        p        == attach_prices(qty, products_df, "product_id")
        \* merging an integer column with a column of str raises
        mismatch == /\ {"product_id", "price"} \subseteq products_df.cols
                    /\ products_df.idtype = "str"
                    /\ products_df.rows # <<>> /\ qty # <<>>
    IN  IF mismatch THEN Raise("ValueError", <<"merge", "product_id">>)
        ELSE [cols |-> f.cols \cup {"product_price"},
              rows |-> p.kept,
              reached |-> Sources(qty),
              by_id |-> TRUE,
              \* apply() yields floats once some id did not parse
              cust_float |-> \E i \in 1..Len(f.rows) : ~parses_as_int(f.rows[i]["customer_id"]),
              stats |-> [f.stats EXCEPT !.missing_handled =
                            @ + (Len(f.rows) - Len(with_ids))
                              + (Len(ids) - Len(with_qty))
                              + (Len(p.priced) - Len(p.kept))]]

\* lines 460-503: the name path
sales_name_path(f, products_df) ==
    LET Clean(v) == strip(IF isna(v) THEN EMPTY ELSE v)
        emails   == ApplyCol(f.rows, "customer_email",
                             [v \in Cells(f.rows, "customer_email") |-> Clean(v)])
        with_em  == SelectSeq(emails, LAMBDA r : r["customer_email"] # EMPTY)
        names    == ApplyCol(with_em, "product_name",
                             [v \in Cells(with_em, "product_name") |-> Clean(v)])
        with_nm  == SelectSeq(names, LAMBDA r : r["product_name"] # EMPTY)
        with_qty == SelectSeq(with_nm, LAMBDA r :
                        parses_as_int(r["quantity"]) /\ safe_to_int(r["quantity"], 0) > 0)
        qty      == [i \in 1..Len(with_qty) |->
                       With(with_qty[i], "quantity", safe_to_int(with_qty[i]["quantity"], 0))]
        p        == attach_prices(qty, products_df, "product_name")
    IN  [cols |-> f.cols \cup {"product_price"},
         rows |-> p.kept,
         reached |-> Sources(qty),
         by_id |-> FALSE,
         cust_float |-> FALSE,
         stats |-> [f.stats EXCEPT !.missing_handled =
                       @ + (Len(emails) - Len(with_em))
                         + (Len(names) - Len(with_nm))
                         + (Len(with_nm) - Len(with_qty))
                         + (Len(p.priced) - Len(p.kept))]]

\* lines 375-416: codes mapped to emails and product names through the
\* lookup tables, and the name-based rows built from them
sales_translate(f, customers_df, products_df) ==
    LET cust_ok  == {"customer_id", "email"} \subseteq customers_df.cols
        prod_ok  == {"product_id", "product_name"} \subseteq products_df.cols
        price_ok == {"product_name", "price"} \subseteq products_df.cols
        Mapped(r) ==
            LET r1 == IF cust_ok
                      THEN With(r, "customer_email",
                                DictGet(customers_df, "customer_id", "email",
                                        AsStr(r["customer_id"])))
                      ELSE r
            IN  IF prod_ok
                THEN With(r1, "product_name",
                          DictGet(products_df, "product_id", "product_name",
                                  AsStr(r["product_id"])))
                ELSE r1
        mapped   == [i \in 1..Len(f.rows) |-> Mapped(f.rows[i])]
        taken    == SelectSeq(mapped, row_translates)
        new_rows == [i \in 1..Len(taken) |->
                       translate_row(taken[i], products_df, price_ok)]
    IN  [mapped |-> cust_ok \/ prod_ok,
         frame |->
           [cols |-> IF new_rows = <<>> THEN {}
                     ELSE {"order_id", "order_date", "customer_email",
                           "product_name", "quantity", "unit_price", "status"},
            rows |-> new_rows,
            reached |-> Sources(taken),
            by_id |-> FALSE,
            cust_float |-> FALSE,
            stats |-> [f.stats EXCEPT !.missing_handled =
                          @ + (f.stats.processed - Len(new_rows))]]]

\* the characters of the strings the model draws, in code-point order
Ascii == <<" ", "+", "-", ".", "/",
           "0", "1", "2", "3", "4", "5", "6", "7", "8", "9", "@",
           "A", "B", "C", "D", "E", "F", "G", "H", "I", "J", "K", "L", "M",
           "N", "O", "P", "Q", "R", "S", "T", "U", "V", "W", "X", "Y", "Z",
           "a", "b", "c", "d", "e", "f", "g", "h", "i", "j", "k", "l", "m",
           "n", "o", "p", "q", "r", "s", "t", "u", "v", "w", "x", "y", "z",
           "|">>

Code(c) == CHOOSE i \in 1..Len(Ascii) : Ascii[i] = c

RECURSIVE StrLess(_, _)
\* a < b for Python strings
StrLess(a, b) ==
    IF b = <<>> THEN FALSE
    ELSE IF a = <<>> THEN TRUE
    ELSE IF Head(a) = Head(b) THEN StrLess(Tail(a), Tail(b))
    ELSE Code(Head(a)) < Code(Head(b))

RECURSIVE SortStrings(_)
\* sorted(S) for a set of strings
SortStrings(S) ==
    IF S = {} THEN <<>>
    ELSE LET lo == CHOOSE x \in S : \A y \in S \ {x} : StrLess(x, y)
         IN  <<lo>> \o SortStrings(S \ {lo})

\* float(q) * float(up)
Times(q, v) == IF v.inf THEN [v EXCEPT !.m = IF q * v.m < 0 THEN -1 ELSE 1]
               ELSE [v EXCEPT !.m = q * v.m]

RECURSIVE SumFloats(_)
\* sum(float(v) for v in x), left to right
SumFloats(x) ==
    IF x = <<>> THEN [ok |-> TRUE, inf |-> FALSE, m |-> 0]
    ELSE LET h == float(Head(x))
             t == SumFloats(Tail(x))
         IN  IF h.inf THEN h ELSE IF t.inf THEN t
             ELSE [ok |-> TRUE, inf |-> FALSE, m |-> h.m + t.m]

\* normalize_price: the two-decimal string, None when float() raises
normalize_price(p) ==
    IF isna(p) \/ ~float(p).ok THEN NULL ELSE Format2f(float(p))

\* str() of an id of the numeric path: of an int, or of the float the
\* column holds once apply() met an unparseable id
IdStr(n, is_float) == IntToChars(n) \o (IF is_float THEN <<".", "0">> ELSE <<>>)

\* GroupBy "first": the first non-null value of column c, null when all are
first(rows, c) ==
    LET present == SelectSeq(rows, LAMBDA r : ~isna(r[c]))
    IN  IF present = <<>> THEN NULL ELSE present[1][c]

\* the column naming the customer on the path taken
customer_col(by_id) == IF by_id THEN "customer_id" ELSE "customer_email"

product_col(by_id) == IF by_id THEN "product_id" ELSE "product_name"

\* lines 519-539: each row's order_key
order_key(r, f, no_order_ids) ==
    LET ref       == IF f.by_id THEN IdStr(r["customer_id"], f.cust_float)
                     ELSE r["customer_email"]
        composite == ref \o <<"|">> \o r["order_date"]
        oid       == strip(IF isna(r["order_id"]) THEN EMPTY ELSE r["order_id"])
    IN  IF no_order_ids THEN composite
        ELSE IF oid # EMPTY THEN oid ELSE composite

\* Faulty variant: the aggregation "first" in place of the sum.
order_total_first(g) == g[1]["subtotal"]

\* lines 552, 563: the order's total, the float sum of the subtotals
\* formatted once
order_total(g) == Format2f(SumFloats([i \in 1..Len(g) |-> g[i]["subtotal"]]))

\* Faulty variant: one group per row, no grouping.
group_keys_per_row(rows) == [i \in 1..Len(rows) |-> rows[i]["order_key"]]

\* groupby("order_key"): the distinct keys, sorted
group_keys(rows) == SortStrings({rows[i]["order_key"] : i \in 1..Len(rows)})

\* lines 545-567: one order per order_key, in sorted key order
group_orders(rows, by_id) ==
    LET keys == group_keys(rows)
        Group(k) == SelectSeq(rows, LAMBDA r : r["order_key"] = k)
        Order(k) ==
            LET g == Group(k)
            IN  [c \in {"order_key", customer_col(by_id), "order_date",
                        "subtotal", "status"} |->
                    IF c = "order_key" THEN k
                    ELSE IF c = "subtotal"
                    THEN order_total(g)
                    ELSE IF c = "customer_id" THEN g[1][c]  \* ids are all present
                    ELSE first(g, c)]
    IN  [i \in 1..Len(keys) |-> Order(keys[i])]

\* lines 505-586: prices normalized, subtotals, order keys, the two tables
sales_finish(f) ==
    IF "unit_price" \notin f.cols THEN Raise("KeyError", <<"unit_price">>)
    ELSE
    LET normed == ApplyCol(f.rows, "unit_price",
                           [v \in Cells(f.rows, "unit_price") |-> normalize_price(v)])
        kept   == SelectSeq(normed, LAMBDA r : ~isna(r["unit_price"]))
        sub    == [i \in 1..Len(kept) |->
                     With(kept[i], "subtotal",
                          Format2f(Times(kept[i]["quantity"],
                                         float(kept[i]["unit_price"]))))]
        no_ids == "order_id" \notin f.cols
                  \/ \A i \in 1..Len(sub) : isna(sub[i]["order_id"])
        keyed  == [i \in 1..Len(sub) |->
                     With(With(sub[i], "order_key", order_key(sub[i], f, no_ids)),
                          "status", IF "status" \in f.cols THEN sub[i]["status"]
                                    ELSE EMPTY)]
        grouped == group_orders(keyed, f.by_id)
        orders == ApplyCol(grouped, "status",
                     [v \in Cells(grouped, "status") |->
                         LET t == strip(IF isna(v) THEN EMPTY ELSE v)
                         IN  IF t = EMPTY THEN DEFAULT_ORDER_STATUS ELSE t])
        missing_status ==
            Cardinality({i \in 1..Len(grouped) :
                 strip(IF isna(grouped[i]["status"]) THEN EMPTY
                       ELSE grouped[i]["status"]) = EMPTY})
        items  == [i \in 1..Len(keyed) |->
                     [c \in {"order_key", product_col(f.by_id), "quantity",
                             "unit_price", "subtotal"} |-> keyed[i][c]]]
    IN  [kind |-> "ok",
         orders |-> orders,
         items |-> items,
         \* bookkeeping: the sales row behind each item, the rows that came
         \* as far as the price lookup, the dtype of the customer_id column
         src |-> [i \in 1..Len(keyed) |-> keyed[i]["src"]],
         reached |-> f.reached,
         id_float |-> f.cust_float,
         stats |-> [f.stats EXCEPT !.missing_handled =
                       @ + (Len(normed) - Len(kept)) + missing_status]]

\* lines 364-428: the id schema: translation when an id column is coded and
\* a lookup table is there, the numeric path otherwise
sales_by_id(f, customers_df, products_df) ==
    LET cust_ids_numeric == is_series_numeric(f.rows, "customer_id")
        prod_ids_numeric == is_series_numeric(f.rows, "product_id")
        t == sales_translate(f, customers_df, products_df)
        n == sales_numeric_path(f, products_df)
    IN  IF ~(cust_ids_numeric /\ prod_ids_numeric) /\ t.mapped
        THEN sales_finish(t.frame)
        ELSE IF IsRaise(n) THEN n ELSE sales_finish(n)

transform_sales(df0, customers_df, products_df) ==
    LET df1   == rename(df0, [c \in df0.cols |-> SalesRename(c)])
        df    == [df1 EXCEPT !.rows = Labelled(df1.rows)]
        stats == [processed |-> Len(df.rows), duplicates_removed |-> 0,
                  missing_handled |-> 0]
        by_id == has_id_cols(df.cols)
        f     == sales_dedup_dates(df, by_id, stats)
    IN  IF ~(has_name_cols(df.cols) \/ has_id_cols(df.cols))
        THEN missing_columns_error(df.cols)
        ELSE IF by_id THEN sales_by_id(f, customers_df, products_df)
        ELSE sales_finish(sales_name_path(f, products_df))

\* ------------------------------------------------------------------------
\* load_orders_and_items: the frames are those transform_sales returns
\* (sequences of rows with at least one row, ids without missing values);
\* store rows carry in "order_key" the key of the frame row they came from,
\* which the store itself does not hold
\* ------------------------------------------------------------------------

\* a DECIMAL(10,2) NOT NULL column takes the value
decimal_ok(v) == ~isna(v) /\ float(v).ok /\ ~float(v).inf

\* the positions of the rows of a store table whose column c holds v
StoreHits(table, c, v) == {i \in 1..Len(table) : table[i][c] = v}

\* {r[1]: r[0] for r in map_rows}[k]: the id the last such row gives
StoreId(table, idcol, c, v) ==
    table[CHOOSE i \in StoreHits(table, c, v) :
              \A j \in StoreHits(table, c, v) : j <= i][idcol]

\* lines 809-821: the orders with a customer_id, resolved from the email
\* when the frame has no customer_id column; orders without one are out
resolved_orders(st, orders_df) ==
    IF "customer_id" \in DOMAIN orders_df[1] THEN orders_df
    ELSE LET known == SelectSeq(orders_df, LAMBDA r :
                         StoreHits(st.customers, "email", r["customer_email"]) # {})
         IN  [i \in 1..Len(known) |->
                 With(known[i], "customer_id",
                      StoreId(st.customers, "customer_id", "email",
                              known[i]["customer_email"]))]

\* the INSERT INTO orders succeeds: the customer exists (FOREIGN KEY), the
\* date is a date, the total fits DECIMAL(10,2)
order_accepted(st, r) ==
    /\ StoreHits(st.customers, "customer_id", r["customer_id"]) # {}
    /\ decimal_ok(r["subtotal"])
    /\ ~isna(r["order_date"])

\* lines 834-860, the insert went through: the row is in, its generated id
\* is recorded under its order_key, orders_loaded goes up
order_inserted(acc, r) ==
    [acc EXCEPT
       !.orders = Append(@, [order_id |-> acc.next_id,
                             customer_id |-> r["customer_id"],
                             order_date |-> r["order_date"],
                             total_amount |-> r["subtotal"],
                             status |-> IF r["status"] = EMPTY
                                        THEN DEFAULT_ORDER_STATUS ELSE r["status"],
                             order_key |-> r["order_key"]]),
       !.order_key_to_id = (r["order_key"] :> acc.next_id) @@ @,
       !.next_id = @ + 1,
       !.orders_loaded = @ + 1]

\* lines 832-862: the orders inserted one by one in one transaction; a
\* failed insert is skipped, and on PostgreSQL every later statement of
\* the transaction fails too
RECURSIVE insert_orders(_, _, _, _)
insert_orders(st, rows, i, acc) ==
    IF i > Len(rows) THEN acc
    ELSE IF (st.dialect = "postgresql" /\ acc.failed) \/ ~order_accepted(st, rows[i])
    THEN insert_orders(st, rows, i + 1, [acc EXCEPT !.failed = TRUE])
    ELSE insert_orders(st, rows, i + 1, order_inserted(acc, rows[i]))

\* the end of a transaction of inserts: on PostgreSQL the commit of a
\* transaction in which a statement failed rolls it back
committed(st, before, after, failed) ==
    IF st.dialect = "postgresql" /\ failed THEN before ELSE after

\* lines 864-874: the items with a product_id, resolved from the name when
\* the frame has no product_id column; items without one are out
resolved_items(st, order_items_df) ==
    IF "product_id" \in DOMAIN order_items_df[1] THEN order_items_df
    ELSE LET known == SelectSeq(order_items_df, LAMBDA r :
                         StoreHits(st.products, "product_name", r["product_name"]) # {})
         IN  [i \in 1..Len(known) |->
                 With(known[i], "product_id",
                      StoreId(st.products, "product_id", "product_name",
                              known[i]["product_name"]))]

\* Faulty variant: every item gets the id generated last.
attach_order_id_last(r, order_key_to_id, next_id) == With(r, "order_id", next_id - 1)

\* line 877: order_items_df["order_key"].map(order_key_to_id)
attach_order_id(r, order_key_to_id, next_id) ==
    With(r, "order_id", order_key_to_id[r["order_key"]])

\* lines 876-880: the items with the generated id of their order; items
\* whose order_key has none are out
attached_items(rows, order_key_to_id, next_id) ==
    LET known == SelectSeq(rows, LAMBDA r : r["order_key"] \in DOMAIN order_key_to_id)
    IN  [i \in 1..Len(known) |-> attach_order_id(known[i], order_key_to_id, next_id)]

\* the INSERT INTO order_items succeeds: order and product exist (FOREIGN
\* KEY), the amounts fit DECIMAL(10,2)
item_accepted(st, r) ==
    /\ StoreHits(st.orders, "order_id", r["order_id"]) # {}
    /\ StoreHits(st.products, "product_id", r["product_id"]) # {}
    /\ decimal_ok(r["unit_price"])
    /\ decimal_ok(r["subtotal"])

item_inserted(acc, r) ==
    [acc EXCEPT
       !.order_items = Append(@, [order_id |-> r["order_id"],
                                  product_id |-> r["product_id"],
                                  quantity |-> r["quantity"],
                                  unit_price |-> r["unit_price"],
                                  subtotal |-> r["subtotal"],
                                  order_key |-> r["order_key"]]),
       !.order_items_loaded = @ + 1]

\* lines 887-899: the items inserted one by one in one transaction; the
\* handler of a failed insert reads row['product_name'], which an id-based
\* frame does not have: the KeyError leaves the function
RECURSIVE insert_items(_, _, _, _)
insert_items(st, rows, i, acc) ==
    IF i > Len(rows) \/ acc.raised THEN acc
    ELSE IF (st.dialect = "postgresql" /\ acc.failed) \/ ~item_accepted(st, rows[i])
    THEN insert_items(st, rows, i + 1,
                      [acc EXCEPT !.failed = TRUE,
                                  !.raised = "product_name" \notin DOMAIN rows[i]])
    ELSE insert_items(st, rows, i + 1, item_inserted(acc, rows[i]))

\* load_orders_and_items(engine, orders_df, order_items_df): what the call
\* gives back (its stats, or the exception) and the store after it
load_orders_and_items(st, orders_df, order_items_df) ==
    LET o1  == resolved_orders(st, orders_df)
        a   == insert_orders(st, o1, 1,
                   [orders |-> st.orders, next_id |-> st.next_order_id,
                    order_key_to_id |-> [k \in {} |-> 0],
                    orders_loaded |-> 0, failed |-> FALSE])
        st1 == [st EXCEPT !.orders = committed(st, st.orders, a.orders, a.failed),
                          !.next_order_id = a.next_id]
        i1  == resolved_items(st1, order_items_df)
        i2  == attached_items(i1, a.order_key_to_id, a.next_id)
        b   == insert_items(st1, i2, 1,
                   [order_items |-> st1.order_items, order_items_loaded |-> 0,
                    failed |-> FALSE, raised |-> FALSE])
    IN  IF b.raised
        THEN [out |-> Raise("KeyError", <<"product_name">>), store |-> st1]
        ELSE [out |-> [kind |-> "ok",
                       \* bookkeeping: the ids the call recorded per order_key
                       order_key_to_id |-> a.order_key_to_id,
                       stats |-> [orders_loaded |-> a.orders_loaded,
                                  order_items_loaded |-> b.order_items_loaded,
                                  missing_handled |->
                                      (Len(orders_df) - Len(o1))
                                      + (Len(order_items_df) - Len(i1))
                                      + (Len(i1) - Len(i2))]],
              store |-> [st1 EXCEPT !.order_items =
                            committed(st, st1.order_items, b.order_items, b.failed)]]

\* ------------------------------------------------------------------------
\* The inputs drawn
\* ------------------------------------------------------------------------

\* the most rows a drawn sales table holds
MaxRows == 2

D_ISO == <<"2", "0", "2", "5", "-", "1", "2", "-", "3", "0">>
D_DMY == <<"3", "0", "/", "1", "2", "/", "2", "0", "2", "5">>
D_BAD == <<"i", "n", "v", "a", "l", "i", "d">>

EmailA == <<"a", "@", "x">>
EmailB == <<"b", "@", "x">>
Delivered == <<"D", "e", "l", "i", "v", "e", "r", "e", "d">>

\* (transaction_id, customer, transaction_date) of a name-based row
NameKeyParts ==
    { <<NULL, EmailA, D_ISO>>,
      <<<<"T", "1">>, EmailA, D_ISO>>,
      <<<<" ">>, EmailB, D_DMY>>,
      <<NULL, EmailA, D_BAD>>,
      <<NULL, <<" ">>, D_ISO>> }

\* (product, quantity, unit_price, status) of a name-based row
NameItemParts ==
    { <<<<"X">>, <<"1">>, <<"1", "0">>, EMPTY>>,
      <<<<"Y">>, <<"2">>, NULL, Delivered>>,
      <<<<"Z">>, <<"1">>, NULL, NULL>>,
      <<<<"X">>, <<"0">>, <<"7", ".", "5">>, EMPTY>>,
      <<<<"X">>, <<"1">>, <<"i", "n", "f">>, EMPTY>> }

NameRows ==
    { [transaction_id |-> k[1], customer_email |-> k[2], transaction_date |-> k[3],
       product_name |-> i[1], quantity |-> i[2], unit_price |-> i[3],
       status |-> i[4]] : k \in NameKeyParts, i \in NameItemParts }

\* (transaction_id, customer_id, transaction_date) of an id-based row
IdKeyParts ==
    { <<NULL, <<"1", "0", "0">>, D_ISO>>,
      <<<<"T", "1">>, <<"1", "0", "0">>, D_ISO>>,
      <<NULL, <<"C", "1">>, D_DMY>>,
      <<NULL, <<"C", "9">>, D_ISO>>,
      <<NULL, NULL, D_BAD>> }

\* (product_id, quantity, unit_price, status) of an id-based row
IdItemParts ==
    { <<<<"2", "0", "0">>, <<"1">>, NULL, EMPTY>>,
      <<<<"2", "0", "1">>, <<"3">>, <<"5", ".", "0", "0">>, Delivered>>,
      <<<<"P", "1">>, <<"1">>, NULL, NULL>>,
      <<<<"P", "2">>, <<"0">>, <<"5">>, EMPTY>>,
      <<<<"P", "9">>, <<"2">>, <<"5">>, EMPTY>> }

IdRows ==
    { [transaction_id |-> k[1], customer_id |-> k[2], transaction_date |-> k[3],
       product_id |-> i[1], quantity |-> i[2], unit_price |-> i[3],
       status |-> i[4]] : k \in IdKeyParts, i \in IdItemParts }

\* the sequences of at most n elements of S
RECURSIVE SeqsUpTo(_, _)
SeqsUpTo(S, n) ==
    IF n = 0 THEN {<<>>}
    ELSE LET shorter == SeqsUpTo(S, n - 1)
         IN  shorter \cup {Append(q, x) : q \in {t \in shorter : Len(t) = n - 1}, x \in S}

\* a table of the rows restricted to the columns cols
Table(cols, rows) ==
    [cols |-> cols, rows |-> [i \in 1..Len(rows) |-> [c \in cols |-> rows[i][c]]]]

NameColsFull == {"transaction_id", "transaction_date", "customer_email",
                 "product_name", "quantity", "unit_price", "status"}

NameColsMin == NameColsFull \ {"transaction_id", "status"}

IdColsFull == {"transaction_id", "transaction_date", "customer_id",
               "product_id", "quantity", "unit_price", "status"}

IdColsMin == IdColsFull \ {"transaction_id", "status"}

\* sales tables that fail the schema detection: no columns at all, none of
\* the key columns, one column of each pair
BadCols == { {}, {"order_date", "quantity", "unit_price"},
             {"transaction_date", "customer_id", "product_name", "quantity",
              "unit_price"} }

\* no store at hand: the transforms do not touch one
NoStore == [dialect |-> "mysql", customers |-> <<>>, products |-> <<>>,
            orders |-> <<>>, order_items |-> <<>>, next_order_id |-> 1]

NoTable == [cols |-> {}, rows |-> <<>>, idtype |-> "str"]

\* product tables: prices by name, by name with one name under two
\* categories, by integer id, by code with names
ProductsByName ==
    [cols |-> {"product_name", "price"}, idtype |-> "str",
     rows |-> << [product_name |-> <<"X">>, price |-> <<"1", "0", ".", "0">>],
                 [product_name |-> <<"Y">>, price |-> <<"7", ".", "5">>] >>]

ProductsTwoCategories ==
    [cols |-> {"product_name", "category", "price"}, idtype |-> "str",
     rows |-> << [product_name |-> <<"X">>, category |-> <<"E">>,
                  price |-> <<"1", "0", ".", "0", "0">>],
                 [product_name |-> <<"X">>, category |-> <<"H">>,
                  price |-> <<"1", "2", ".", "5", "0">>],
                 [product_name |-> <<"Y">>, category |-> <<"E">>,
                  price |-> <<"7", ".", "5", "0">>] >>]

ProductsById ==
    [cols |-> {"product_id", "price"}, idtype |-> "int",
     rows |-> << [product_id |-> 200, price |-> <<"1", "2", ".", "5">>],
                 [product_id |-> 201, price |-> <<"5", ".", "0">>] >>]

ProductsByCode ==
    [cols |-> {"product_id", "product_name", "price"}, idtype |-> "str",
     rows |-> << [product_id |-> <<"P", "1">>, product_name |-> <<"X">>,
                  price |-> <<"1", "2", ".", "5">>],
                 [product_id |-> <<"P", "2">>, product_name |-> <<"Y">>,
                  price |-> <<"5", ".", "0">>] >>]

\* two product codes that carry one product name, at different prices
ProductsSharedName ==
    [cols |-> {"product_id", "product_name", "category", "price"}, idtype |-> "str",
     rows |-> << [product_id |-> <<"P", "1">>, product_name |-> <<"X">>,
                  category |-> <<"E">>, price |-> <<"1", "2", ".", "5">>],
                 [product_id |-> <<"P", "3">>, product_name |-> <<"X">>,
                  category |-> <<"H">>, price |-> <<"9", ".", "0">>] >>]

CustomersByCode ==
    [cols |-> {"customer_id", "email"}, idtype |-> "str",
     rows |-> << [customer_id |-> <<"C", "1">>, email |-> EmailA] >>]

\* the clock: datetime.today() as a date string
Day1 == <<"2", "0", "2", "6", "-", "0", "1", "-", "0", "1">>
Day2 == <<"2", "0", "2", "6", "-", "0", "1", "-", "0", "2">>

Phone10 == <<"9", "8", "7", "6", "5", "4", "3", "2", "1", "0">>

\* (email, first_name, last_name) of a raw customer row
CustomerNameParts ==
    { <<EmailA, <<"A">>, <<"B">>>>,
      <<EmailA \o <<" ">>, <<" ", "A">>, <<"B">>>>,
      <<EmailB, <<" ">>, <<"B">>>>,
      <<EmailB, <<"A">>, NULL>>,
      <<<<" ">>, <<"A">>, <<"B">>>>,
      <<NULL, <<"A">>, <<"B">>>> }

\* (phone, registration_date, city) of a raw customer row
CustomerFieldParts ==
    { <<Phone10, D_DMY, <<"P", "u", "n", "e">>>>,
      <<<<"1", "2", "3", "4", "5">>, D_BAD, NULL>>,
      <<NULL, NULL, <<" ">>>> }

CustomerRows ==
    { [email |-> n[1], first_name |-> n[2], last_name |-> n[3],
       phone |-> f[1], registration_date |-> f[2], city |-> f[3]] :
      n \in CustomerNameParts, f \in CustomerFieldParts }

CustomerColsFull == {"first_name", "last_name", "email", "phone", "city",
                     "registration_date"}

\* ------------------------------------------------------------------------
\* The state machine: the tables handed in, the clock, the results of the
\* calls made so far
\* ------------------------------------------------------------------------

InitName ==
    /\ \E cols \in {NameColsFull, NameColsMin} :
         \E rows \in SeqsUpTo(NameRows, MaxRows) : sales = Table(cols, rows)
    /\ customers = NoTable
    /\ products \in {NoTable, ProductsByName, ProductsTwoCategories}

InitId ==
    /\ \E cols \in {IdColsFull, IdColsMin} :
         \E rows \in SeqsUpTo(IdRows, MaxRows) : sales = Table(cols, rows)
    /\ customers \in {NoTable, CustomersByCode}
    /\ products \in {NoTable, ProductsById, ProductsByCode, ProductsSharedName}

InitBad ==
    /\ \E cols \in BadCols :
         \E rows \in SeqsUpTo({[c \in cols |-> <<"1">>]}, MaxRows) :
            sales = [cols |-> cols, rows |-> rows]
    /\ customers \in {NoTable, CustomersByCode}
    /\ products \in {NoTable, ProductsByName}

Init ==
    /\ InitName \/ InitId \/ InitBad
    /\ today = Day1
    /\ arg = NULL
    /\ store = NoStore
    /\ runs = <<>>

\* the function is called twice on the same tables, a day apart
MayCall == runs = <<>> \/ (Len(runs) = 1 /\ today = Day2)

\* a call transform_sales(sales, customers, products); it leaves its
\* arguments as they are
CallTransformSales ==
    /\ MayCall
    /\ runs' = Append(runs, transform_sales(sales, customers, products))
    /\ UNCHANGED <<sales, customers, products, today, arg, store>>

\* midnight passes between the two calls
ClockTick ==
    /\ Len(runs) = 1
    /\ today = Day1
    /\ today' = Day2
    /\ UNCHANGED <<sales, customers, products, arg, store, runs>>

Next == CallTransformSales \/ ClockTick

Spec == Init /\ [][Next]_vars

\* transform_customers, called twice on the same raw table, a day apart
InitCustomers ==
    /\ \E cols \in {CustomerColsFull, CustomerColsFull \ {"city"}} :
         \E rows \in SeqsUpTo(CustomerRows, MaxRows) :
            customers = Table(cols, rows)
    /\ sales = NoTable
    /\ products = NoTable
    /\ today = Day1
    /\ arg = NULL
    /\ store = NoStore
    /\ runs = <<>>

CallTransformCustomers ==
    /\ MayCall
    /\ runs' = Append(runs, transform_customers(customers))
    /\ UNCHANGED <<sales, customers, products, today, arg, store>>

NextCustomers == CallTransformCustomers \/ ClockTick

SpecCustomers == InitCustomers /\ [][NextCustomers]_vars

\* (product_name, category) of a raw product row
ProductNameParts ==
    { <<<<"X">>, <<"e", "l", "e", "c">>>>,
      <<<<"X">>, <<"E", "l", "e", "c">>>>,
      <<<<"X">>, <<"h", "o", "m", "e", " ", "d", "e", "c", "o", "r">>>>,
      <<<<" ", "Y">>, <<" ", "H", "O", "M", "E">>>>,
      <<<<"Y">>, NULL>> }

\* (price, stock_quantity) of a raw product row
ProductFieldParts ==
    { <<<<"1", "0">>, <<"5">>>>,
      <<<<"7", ".", "5">>, NULL>>,
      <<<<"1", "2", ".", "5", "0">>, <<"-", "5">>>>,
      <<<<"5">>, <<"3", ".", "7">>>>,
      <<<<"5">>, <<"x">>>>,
      <<NULL, <<"3">>>>,
      <<<<"a", "b", "c">>, EMPTY>> }

ProductRows ==
    { [product_name |-> n[1], category |-> n[2], price |-> f[1],
       stock_quantity |-> f[2]] : n \in ProductNameParts, f \in ProductFieldParts }

\* transform_products, called on a raw products table
InitProducts ==
    /\ \E rows \in SeqsUpTo(ProductRows, MaxRows) : products = Table({"product_name", "category", "price", "stock_quantity"}, rows)
    /\ sales = NoTable
    /\ customers = NoTable
    /\ today = Day1
    /\ arg = NULL
    /\ store = NoStore
    /\ runs = <<>>

CallTransformProducts ==
    /\ runs = <<>>
    /\ runs' = <<transform_products(products)>>
    /\ UNCHANGED <<sales, customers, products, today, arg, store>>

SpecProducts == InitProducts /\ [][CallTransformProducts]_vars

\* the name-based sales rows behind a load, by (transaction_id,
\* customer_email, product_name, quantity, unit_price): two items of one
\* order, a second customer, a product the store does not have, a total
\* the store does not take
LoadNameRows ==
    { [transaction_id |-> p[1], customer_email |-> p[2], transaction_date |-> D_ISO,
       product_name |-> p[3], quantity |-> p[4], unit_price |-> p[5],
       status |-> Delivered] :
      p \in { <<<<"T", "1">>, EmailA, <<"X">>, <<"1">>, <<"1", "0">>>>,
              <<<<"T", "1">>, EmailA, <<"Y">>, <<"2">>, <<"7", ".", "5">>>>,
              <<<<"T", "2">>, EmailB, <<"X">>, <<"1">>, <<"1", "0">>>>,
              <<<<"T", "3">>, EmailA, <<"Z">>, <<"1">>, <<"5">>>>,
              <<<<"T", "4">>, EmailA, <<"X">>, <<"1">>, <<"i", "n", "f">>>> } }

\* the id-based sales rows behind a load, by (transaction_id, customer_id,
\* product_id, quantity, unit_price)
LoadIdRows ==
    { [transaction_id |-> p[1], customer_id |-> p[2], transaction_date |-> D_ISO,
       product_id |-> p[3], quantity |-> p[4], unit_price |-> p[5],
       status |-> Delivered] :
      p \in { <<<<"T", "1">>, <<"7">>, <<"2", "0", "0">>, <<"1">>, <<"5", ".", "0", "0">>>>,
              <<<<"T", "1">>, <<"7">>, <<"2", "0", "1">>, <<"1">>, <<"5", ".", "0", "0">>>>,
              <<<<"T", "2">>, <<"1", "0", "0">>, <<"2", "0", "0">>, <<"1">>,
                <<"5", ".", "0", "0">>>>,
              <<<<"T", "3">>, <<"7">>, <<"2", "0", "0">>, <<"1">>, <<"i", "n", "f">>>> } }

\* the sales tables behind a load
LoadSales ==
    {Table(NameColsFull, rows) : rows \in SeqsUpTo(LoadNameRows, MaxRows)}
    \cup {Table(IdColsFull, rows) : rows \in SeqsUpTo(LoadIdRows, MaxRows)}

\* the stores at the time the orders are loaded: of either dialect, with
\* one customer or two, two products and an order loaded earlier
Stores ==
    { [dialect |-> d, customers |-> c,
       products |-> << [product_id |-> 200, product_name |-> <<"X">>],
                       [product_id |-> 3, product_name |-> <<"Y">>] >>,
       orders |-> << [order_id |-> 1, customer_id |-> 7, order_date |-> D_ISO,
                      total_amount |-> <<"1", ".", "0", "0">>, status |-> Delivered,
                      order_key |-> NULL] >>,
       order_items |-> <<>>, next_order_id |-> 2] :
      d \in {"mysql", "postgresql"},
      c \in { << [customer_id |-> 7, email |-> EmailA] >>,
              << [customer_id |-> 7, email |-> EmailA],
                 [customer_id |-> 100, email |-> EmailB] >> } }

\* the orders and line items transform_sales returns for a sales table are
\* handed to load_orders_and_items (main, lines 950-958)
InitLoad ==
    /\ sales \in LoadSales
    /\ customers = NoTable
    /\ products = NoTable
    /\ today = Day1
    /\ \E r \in {transform_sales(sales, customers, products)} :
           /\ r.kind = "ok"
           /\ r.orders # <<>>
           /\ arg = [orders_df |-> r.orders, order_items_df |-> r.items]
    /\ store \in Stores
    /\ runs = <<>>

CallLoadOrdersAndItems ==
    /\ runs = <<>>
    /\ \E r \in {load_orders_and_items(store, arg.orders_df, arg.order_items_df)} :
           /\ runs' = <<r.out>>
           /\ store' = r.store
    /\ UNCHANGED <<sales, customers, products, today, arg>>

SpecLoad == InitLoad /\ [][CallLoadOrdersAndItems]_vars

\* ------------------------------------------------------------------------
\* The field normalizers, each called once on a drawn value
\* ------------------------------------------------------------------------

\* the most digits a drawn phone number holds after its lead
MaxPhoneDigits == 12

\* the first k digits of 9876543210 repeated
DigitRun(k) == [i \in 1..k |-> Digits[10 - ((i - 1) % 10)]]

\* what a phone number starts with: nothing, a country code, a trunk zero
PhoneLeads == { <<>>, <<"9", "1">>, <<"+", "9", "1", "-">>, <<"0">>,
                <<"(", "0", "1", ")", " ">> }

\* a digit run written plain, with a dash after the fifth digit, or
\* between blanks
PhoneShapes(d) ==
    { d,
      IF Len(d) > 5 THEN SubSeq(d, 1, 5) \o <<"-">> \o SubSeq(d, 6, Len(d)) ELSE d,
      <<" ">> \o d \o <<" ">> }

PhoneInputs ==
    {NULL} \cup { lead \o body : lead \in PhoneLeads,
                                 body \in UNION {PhoneShapes(DigitRun(k)) :
                                                    k \in 0..MaxPhoneDigits} }

InitNormalizer(inputs) ==
    /\ arg \in inputs
    /\ store = NoStore
    /\ sales = NoTable
    /\ customers = NoTable
    /\ products = NoTable
    /\ today = Day1
    /\ runs = <<>>

CallNormalizePhone ==
    /\ runs = <<>>
    /\ runs' = <<normalize_phone_to_india(arg)>>
    /\ UNCHANGED <<sales, customers, products, today, arg, store>>

SpecPhone == InitNormalizer(PhoneInputs) /\ [][CallNormalizePhone]_vars

\* the day and month fields a drawn date is written with
DateFields == { <<"5">>, <<"0", "5">>, <<"1", "2">>, <<"1", "3">>, <<"3", "0">>,
                <<"3", "1">>, <<"2">>, <<"2", "9">>, <<"0">>, <<"3", "2">> }

\* the years of the drawn dates (four digits, 1000 and later, where
\* strftime("%Y") writes four digits on every platform)
DateYears == { <<"2", "0", "2", "5">>, <<"2", "0", "2", "4">> }

DateSeps == { "-", "/" }

\* year-last dates in both separators, year-first dates with a month that
\* is one, and the strings of test_parse_date_to_iso_various
DateInputs ==
    { a \o <<sep>> \o b \o <<sep>> \o y :
        a \in DateFields, b \in DateFields, y \in DateYears, sep \in DateSeps }
    \cup { y \o <<"-">> \o m \o <<"-">> \o d :
        y \in DateYears, m \in {<<"5">>, <<"0", "5">>, <<"1", "2">>, <<"0", "2">>},
        d \in DateFields }
    \cup { NULL, EMPTY, <<" ">>, D_BAD, D_ISO, D_DMY,
           <<" ">> \o D_DMY \o <<" ">>,
           <<"2", "0", "2", "5", "/", "1", "2", "/", "3", "0">> }

CallParseDate ==
    /\ runs = <<>>
    /\ runs' = <<parse_date_to_iso(arg)>>
    /\ UNCHANGED <<sales, customers, products, today, arg, store>>

SpecDate == InitNormalizer(DateInputs) /\ [][CallParseDate]_vars

\* ------------------------------------------------------------------------
\* Properties of transform_sales (checked under Spec)
\* ------------------------------------------------------------------------

\* the calls that returned
Returned == {n \in 1..Len(runs) : runs[n].kind = "ok"}

\* the sales table's columns after the renaming
RenamedCols == {SalesRename(c) : c \in sales.cols}

PassesDetection == has_name_cols(RenamedCols) \/ has_id_cols(RenamedCols)

\* the positions of the items of run n that carry order key k
ItemsOf(n, k) == {i \in 1..Len(runs[n].items) : runs[n].items[i]["order_key"] = k}

\* the sum of the cents of the values at the positions I of a sequence of
\* two-decimal strings
RECURSIVE SumCents(_, _)
SumCents(q, I) ==
    IF I = {} THEN 0
    ELSE LET i == CHOOSE j \in I : TRUE
         IN  RoundCents(float(q[i]).m) + SumCents(q, I \ {i})

\* C1: every Order's total_amount is the sum of the subtotals of exactly
\* the returned LineItems with its order_key, as a two-decimal string (an
\* infinite subtotal makes the total infinite).
C1_TotalIsSumOfSubtotals ==
    \A n \in Returned :
        \A o \in 1..Len(runs[n].orders) :
            LET I    == ItemsOf(n, runs[n].orders[o]["order_key"])
                subs == [i \in 1..Len(runs[n].items) |-> runs[n].items[i]["subtotal"]]
                tot  == runs[n].orders[o]["subtotal"]
            IN  IF \E i \in I : float(subs[i]).inf
                THEN float(tot).inf
                ELSE tot = FormatCents(SumCents(subs, I))

\* an order of two items whose total is neither item's subtotal
C1_Witness ==
    \E n \in Returned : \E o \in 1..Len(runs[n].orders) :
        LET I == ItemsOf(n, runs[n].orders[o]["order_key"])
        IN  /\ Cardinality(I) = 2
            /\ \A i \in I : /\ runs[n].items[i]["subtotal"] # runs[n].orders[o]["subtotal"]
                            /\ ~float(runs[n].items[i]["subtotal"]).inf

\* the cell of sales row s under the renamed column c, null when the table
\* has no such column
SalesCell(s, c) == Get(rename(sales, [k \in sales.cols |-> SalesRename(k)]).rows[s], c)

Blank(v) == isna(v) \/ strip(v) = EMPTY

\* the sales rows behind the items of run n
Survivors(n) == {runs[n].src[i] : i \in 1..Len(runs[n].src)}

\* run n went down the numeric id path
NumericRun(n) == has_id_cols(RenamedCols) /\ \A i \in 1..Len(runs[n].items) :
                     "product_id" \in DOMAIN runs[n].items[i]

\* the customer reference of surviving sales row s in run n: the id as the
\* customer_id column holds it on the numeric path, the email otherwise
\* (the one the customers table gives for the code on the translated path)
CustomerRef(n, s) ==
    IF NumericRun(n)
    THEN IdStr(safe_to_int(SalesCell(s, "customer_id"), 0), runs[n].id_float)
    ELSE IF has_id_cols(RenamedCols)
    THEN DictGet(customers, "customer_id", "email", AsStr(SalesCell(s, "customer_id")))
    ELSE strip(SalesCell(s, "customer_email"))

CompositeKey(n, s) ==
    CustomerRef(n, s) \o <<"|">> \o parse_date_to_iso(SalesCell(s, "order_date"))

\* the first half of C2: a line item's order_key is its row's own order
\* identifier when that is not blank, customer reference | order date
\* otherwise
C2_KeyRule ==
    \A n \in Returned : \A i \in 1..Len(runs[n].items) :
        LET s == runs[n].src[i]
        IN  runs[n].items[i]["order_key"] =
                IF Blank(SalesCell(s, "order_id")) THEN CompositeKey(n, s)
                ELSE strip(SalesCell(s, "order_id"))

\* the second half of C2: two surviving rows of one customer and one date
\* without an order identifier give one Order with that composite key and
\* two LineItems, both carrying it
C2_TwoRowsOneOrder ==
    \A n \in Returned : \A s1, s2 \in Survivors(n) :
        (/\ s1 < s2
         /\ Blank(SalesCell(s1, "order_id")) /\ Blank(SalesCell(s2, "order_id"))
         /\ CompositeKey(n, s1) = CompositeKey(n, s2))
        => LET k == CompositeKey(n, s1)
               I == {i \in 1..Len(runs[n].items) : runs[n].src[i] \in {s1, s2}}
           IN  /\ Cardinality({o \in 1..Len(runs[n].orders) :
                                   runs[n].orders[o]["order_key"] = k}) = 1
               /\ Cardinality(I) = 2
               /\ \A i \in I : runs[n].items[i]["order_key"] = k

\* C2: order_key is the row's own order identifier when non-blank and
\* customer reference | order date otherwise; hence two rows of customer X
\* and date D without order id yield exactly one Order keyed X|D and two
\* LineItems referencing it.
C2_OrderKey == C2_KeyRule /\ C2_TwoRowsOneOrder

NoStats == [processed |-> 0, duplicates_removed |-> 0, missing_handled |-> 0]

\* C4: with a sales, a customers and a products table without rows (tables
\* without columns included) transform_sales does not raise: it returns no
\* orders, no line items and stats of zeros.
C4_EmptyInput ==
    \A n \in 1..Len(runs) :
        (sales.rows = <<>> /\ customers.rows = <<>> /\ products.rows = <<>>)
        => /\ runs[n].kind = "ok"
           /\ runs[n].orders = <<>>
           /\ runs[n].items = <<>>
           /\ runs[n].stats = NoStats

\* the prices, as two-decimal strings, of the product-table entries that
\* the product reference of sales row s matches: by name on the name
\* schema, by id or code on the id schema
MatchingPrices(s) ==
    LET key == IF has_id_cols(RenamedCols) THEN "product_id" ELSE "product_name"
        ref == SalesCell(s, key)
        Hit(p) == IF key = "product_name" THEN p[key] = strip(ref)
                  ELSE IF products.idtype = "int"
                  THEN parses_as_int(ref) /\ p[key] = safe_to_int(ref, 0)
                  ELSE p[key] = ref
    IN  IF {key, "price"} \subseteq products.cols /\ ~isna(ref)
        THEN {Format2f(float(products.rows[j]["price"])) :
                 j \in {j \in 1..Len(products.rows) : Hit(products.rows[j])}}
        ELSE {}

\* C5: on every path, a row that comes through the filters with a null
\* unit_price and a product reference matching a product-table entry is
\* not dropped, and its unit_price is that entry's price with exactly two
\* decimals.
C5_PriceBackfill ==
    \A n \in Returned : \A s \in runs[n].reached :
        (isna(SalesCell(s, "unit_price")) /\ MatchingPrices(s) # {})
        => /\ s \in Survivors(n)
           /\ \A i \in 1..Len(runs[n].items) :
                 runs[n].src[i] = s => runs[n].items[i]["unit_price"] \in MatchingPrices(s)

C7_NeverRaisesOnRows ==
    \A n \in 1..Len(runs) : PassesDetection => runs[n].kind \in {"ok", "ValueError"}

\* a number with exactly two decimals, as "%.2f" writes a finite float
IsTwoDecimals(v) ==
    /\ ~isna(v)
    /\ LET u == IF v # <<>> /\ Head(v) = "-" THEN Tail(v) ELSE v
       IN  /\ Len(u) >= 4
           /\ u[Len(u) - 2] = "."
           /\ AllDigits(SubSeq(u, 1, Len(u) - 3))
           /\ AllDigits(SubSeq(u, Len(u) - 1, Len(u)))

\* C8: every LineItem has an integer quantity > 0 and a unit_price that is
\* a two-decimal number string; no row whose quantity is missing, does not
\* parse, or is not positive is returned.
C8_ItemsWellFormed ==
    \A n \in Returned : \A i \in 1..Len(runs[n].items) :
        /\ runs[n].items[i]["quantity"] \in Nat \ {0}
        /\ IsTwoDecimals(runs[n].items[i]["unit_price"])
        /\ parses_as_int(SalesCell(runs[n].src[i], "quantity"))
        /\ safe_to_int(SalesCell(runs[n].src[i], "quantity"), 0) > 0

\* the order keys of a table of run n
KeysOf(t) == {t[i]["order_key"] : i \in 1..Len(t)}

\* C9: the Order table has one row per order_key occurring among the
\* LineItems: no two Orders share a key, every LineItem's key is an
\* Order's, every Order has a LineItem.
C9_OneOrderPerKey ==
    \A n \in Returned :
        /\ \A o1, o2 \in 1..Len(runs[n].orders) :
              runs[n].orders[o1]["order_key"] = runs[n].orders[o2]["order_key"] => o1 = o2
        /\ KeysOf(runs[n].orders) = KeysOf(runs[n].items)

\* two orders, one of them with more than one line item
C9_Witness ==
    \E n \in Returned :
        /\ Len(runs[n].orders) = 2
        /\ \E o \in 1..Len(runs[n].orders) :
              Cardinality(ItemsOf(n, runs[n].orders[o]["order_key"])) >= 2

\* ------------------------------------------------------------------------
\* Properties of transform_customers (checked under SpecCustomers)
\* ------------------------------------------------------------------------

\* YYYY-MM-DD
IsIsoDate(v) ==
    /\ ~isna(v)
    /\ Len(v) = 10
    /\ v[5] = "-" /\ v[8] = "-"
    /\ \A i \in {1, 2, 3, 4, 6, 7, 9, 10} : IsDigit(v[i])

\* C10: every row transform_customers returns has an email, a first_name
\* and a last_name that are not empty after trimming and a
\* registration_date of the form YYYY-MM-DD; a raw row whose email,
\* first_name or last_name is null or blank is never returned.
C10_CustomersComplete ==
    \A n \in 1..Len(runs) : \A i \in 1..Len(runs[n].df) :
        /\ \A c \in {"email", "first_name", "last_name"} :
              /\ ~Blank(runs[n].df[i][c])
              /\ ~Blank(customers.rows[runs[n].src[i]][c])
        /\ IsIsoDate(runs[n].df[i]["registration_date"])

\* a call that returned a row with the date of the day in place of one
\* that did not parse, and dropped a row with a blank required field
C10_Witness ==
    \E n \in 1..Len(runs) :
        /\ \E i \in 1..Len(runs[n].df) :
              /\ runs[n].df[i]["registration_date"] = today
              /\ customers.rows[runs[n].src[i]]["registration_date"] = D_BAD
        /\ \E s \in 1..Len(customers.rows) :
              /\ Blank(customers.rows[s]["first_name"])
              /\ ~Blank(customers.rows[s]["email"])
              /\ \A i \in 1..Len(runs[n].df) : runs[n].src[i] # s

\* the email of raw customer row s as the output would show it
TrimmedEmail(s) ==
    strip(IF isna(customers.rows[s]["email"]) THEN EMPTY ELSE customers.rows[s]["email"])

\* the raw customer rows that share their email with an earlier row
SharesEarlierEmail ==
    {s \in 1..Len(customers.rows) :
        \E e \in 1..(s - 1) : TrimmedEmail(e) = TrimmedEmail(s)}

\* C11: email is a unique key of the table transform_customers returns: no
\* two returned rows have the same email as the output shows it, the row
\* kept for an email is its first occurrence in the input, and
\* duplicates_removed counts the rows removed for sharing an email (the
\* raw value of an earlier row).
C11_EmailUnique ==
    \A n \in 1..Len(runs) :
        /\ \A i, j \in 1..Len(runs[n].df) :
              runs[n].df[i]["email"] = runs[n].df[j]["email"] => i = j
        /\ \A i \in 1..Len(runs[n].df) : runs[n].src[i] \notin SharesEarlierEmail
        /\ runs[n].stats.duplicates_removed =
              Cardinality({s \in 1..Len(customers.rows) :
                  \E e \in 1..(s - 1) :
                      customers.rows[e]["email"] = customers.rows[s]["email"]})

\* ------------------------------------------------------------------------
\* Properties of the field normalizers
\* ------------------------------------------------------------------------

\* "+91-" followed by exactly ten digits
IsIndiaPhone(v) ==
    /\ Len(v) = 14
    /\ SubSeq(v, 1, 4) = <<"+", "9", "1", "-">>
    /\ \A i \in 5..14 : IsDigit(v[i])

\* the digits of the value handed in, in their order
ArgDigits == IF isna(arg) THEN <<>> ELSE SelectSeq(arg, LAMBDA c : IsDigit(c))

ArgText == IF isna(arg) THEN <<>> ELSE strip(arg)

\* its fields, split at the separator it is written with
ArgFields == SplitOn(ArgText, IF IndexOf(ArgText, "-") > 0 THEN "-" ELSE "/")

\* three fields of digits
ThreeNumbers ==
    /\ Len(ArgFields) = 3
    /\ \A i \in 1..3 : ArgFields[i] # <<>> /\ AllDigits(ArgFields[i])

\* two fields of one or two digits and a year of four
YearLast ==
    /\ ThreeNumbers
    /\ Len(ArgFields[1]) <= 2 /\ Len(ArgFields[2]) <= 2 /\ Len(ArgFields[3]) = 4

\* year y, month m, day d make a date of the calendar
IsDate(y, m, d) == m \in 1..12 /\ d >= 1 /\ d <= DaysInMonth(y, m)

\* YYYY-MM-DD of a date
IsoOf(y, m, d) ==
    ZeroPad(NatToChars(y), 4) \o <<"-">> \o ZeroPad(NatToChars(m), 2)
    \o <<"-">> \o ZeroPad(NatToChars(d), 2)

\* C13: parse_date_to_iso returns the first successful parse in the order
\* YYYY-MM-DD, DD-MM-YYYY, DD/MM/YYYY, MM-DD-YYYY, MM/DD/YYYY as
\* YYYY-MM-DD: an ISO date maps to itself, a year-last string whose first
\* two fields are both at most 12 is read day-first, one whose second
\* field is above 12 is read month-first, and a null, empty or unparseable
\* input gives "".
C13_ParseDate ==
    \A n \in 1..Len(runs) :
        /\ runs[n] = <<>> \/ IsIsoDate(runs[n])
        /\ (isna(arg) \/ ArgText = <<>>) => runs[n] = <<>>
        /\ (~isna(arg) /\ ~ThreeNumbers /\ \E i \in 1..Len(ArgText) :
                ArgText[i] \notin {"-", "/"} /\ ~IsDigit(ArgText[i]))
           => runs[n] = <<>>
        /\ (IsIsoDate(ArgText) /\ ThreeNumbers
            /\ IsDate(NatOf(ArgFields[1]), NatOf(ArgFields[2]), NatOf(ArgFields[3])))
           => runs[n] = ArgText
        /\ YearLast =>
             LET a == NatOf(ArgFields[1])
                 b == NatOf(ArgFields[2])
                 y == NatOf(ArgFields[3])
             IN  /\ (a \in 1..12 /\ b \in 1..12) => runs[n] = IsoOf(y, b, a)
                 /\ (b > 12 /\ IsDate(y, a, b)) => runs[n] = IsoOf(y, a, b)
                 /\ (~IsDate(y, a, b) /\ ~IsDate(y, b, a)) => runs[n] = <<>>

\* an ambiguous date read day-first, its two fields different
C13_Witness ==
    /\ Len(runs) = 1
    /\ YearLast
    /\ NatOf(ArgFields[1]) \in 1..12 /\ NatOf(ArgFields[2]) \in 1..12
    /\ NatOf(ArgFields[1]) # NatOf(ArgFields[2])
    /\ runs[1] = IsoOf(NatOf(ArgFields[3]), NatOf(ArgFields[2]), NatOf(ArgFields[1]))

\* sales row s is complete on the name schema: a date that parses, a
\* customer email, a product name, a positive quantity and a unit price
CleanNameRow(s) ==
    /\ parse_date_to_iso(SalesCell(s, "order_date")) # EMPTY
    /\ ~Blank(SalesCell(s, "customer_email"))
    /\ ~Blank(SalesCell(s, "product_name"))
    /\ parses_as_int(SalesCell(s, "quantity"))
    /\ safe_to_int(SalesCell(s, "quantity"), 0) > 0
    /\ ~isna(safe_to_decimal(SalesCell(s, "unit_price")))

\* C15: on a name-based sales table of two rows identical in every column
\* transform_sales returns stats.processed = 2, exactly one Order and two
\* LineItems.
C15_IdenticalRowsTwoItems ==
    \A n \in 1..Len(runs) :
        (/\ has_name_cols(RenamedCols) /\ ~has_id_cols(RenamedCols)
         /\ Len(sales.rows) = 2
         /\ sales.rows[1] = sales.rows[2]
         /\ CleanNameRow(1))
        => /\ runs[n].kind = "ok"
           /\ runs[n].stats.processed = 2
           /\ Len(runs[n].orders) = 1
           /\ Len(runs[n].items) = 2

\* the five columns a duplicate is recognized by, for the schema detected
DuplicateCols ==
    IF has_id_cols(RenamedCols)
    THEN {"customer_id", "product_id", "order_date", "quantity", "unit_price"}
    ELSE {"customer_email", "product_name", "order_date", "quantity", "unit_price"}

\* the sales rows that equal an earlier row on the five columns
LaterDuplicates ==
    {s \in 1..Len(sales.rows) :
        \E e \in 1..(s - 1) : \A c \in DuplicateCols : SalesCell(e, c) = SalesCell(s, c)}

Undated == {s \in 1..Len(sales.rows) :
               parse_date_to_iso(SalesCell(s, "order_date")) = EMPTY}

RawStatus(n, i) == SalesCell(runs[n].src[i], "status")

\* the positions, among the items of run n with order key k, whose row came
\* with a status that is not blank
WithStatus(n, k) == {i \in ItemsOf(n, k) : ~Blank(RawStatus(n, i))}

\* the orders of run n all of whose items came without a status
StatusDefaulted(n) ==
    {o \in 1..Len(runs[n].orders) : WithStatus(n, runs[n].orders[o]["order_key"]) = {}}

\* C18: an Order's status is the first non-blank status among the line
\* items of its group, in input order (blank: null, empty or whitespace);
\* it is "Pending" only when every status of the group is blank, and then
\* missing_handled counts the order. A group with statuses "" and
\* "Delivered" has status "Delivered".
C18_FirstNonBlankStatus ==
    \A n \in Returned :
        /\ \A o \in 1..Len(runs[n].orders) :
               LET W == WithStatus(n, runs[n].orders[o]["order_key"])
               IN  runs[n].orders[o]["status"] =
                       IF W = {} THEN DEFAULT_ORDER_STATUS
                       ELSE strip(RawStatus(n, CHOOSE i \in W : \A j \in W : i <= j))
        /\ runs[n].stats.missing_handled >= Cardinality(StatusDefaulted(n))

\* the sales rows left once duplicates and undated rows are out
Dated == (1..Len(sales.rows)) \ (LaterDuplicates \cup Undated)

\* column c of the rows left is classified numeric: a value is present and
\* every value present parses as an integer
ClassifiedNumeric(c) ==
    /\ \E s \in Dated : ~isna(SalesCell(s, c))
    /\ \A s \in Dated : isna(SalesCell(s, c)) \/ parses_as_int(SalesCell(s, c))

BothNumeric == ClassifiedNumeric("customer_id") /\ ClassifiedNumeric("product_id")

CustomersLookup == {"customer_id", "email"} \subseteq customers.cols

ProductsLookup == {"product_id", "product_name"} \subseteq products.cols

\* the call goes down the translation path: id schema, an id column that is
\* coded, a lookup table at hand
TranslationPath ==
    /\ has_id_cols(RenamedCols)
    /\ ~BothNumeric
    /\ CustomersLookup \/ ProductsLookup

\* sales row s translates: its customer code gives an email, its product
\* code a product name, and its quantity is a positive integer
Translates(s) ==
    /\ CustomersLookup
    /\ Truthy(DictGet(customers, "customer_id", "email", AsStr(SalesCell(s, "customer_id"))))
    /\ ProductsLookup
    /\ Truthy(DictGet(products, "product_id", "product_name",
                      AsStr(SalesCell(s, "product_id"))))
    /\ parses_as_int(SalesCell(s, "quantity"))
    /\ safe_to_int(SalesCell(s, "quantity"), 0) > 0

\* C19: on the translation path a row is kept only if its customer_id
\* translates to an email, its product_id to a product name and its
\* quantity is a positive integer; the other rows are dropped and no
\* exception is raised, also when one lookup table alone is at hand; the
\* rows kept go on as name-based rows, keyed by email and product name.
C19_TranslationDropsSilently ==
    \A n \in 1..Len(runs) :
        TranslationPath =>
            /\ runs[n].kind = "ok"
            /\ \A s \in Survivors(n) : Translates(s)
            /\ \A i \in 1..Len(runs[n].items) :
                   /\ "product_name" \in DOMAIN runs[n].items[i]
                   /\ "product_id" \notin DOMAIN runs[n].items[i]
            /\ \A o \in 1..Len(runs[n].orders) :
                   "customer_email" \in DOMAIN runs[n].orders[o]

\* C20: transform_sales goes down the numeric id path (line items keyed by
\* product_id, orders by customer_id) only when customer_id and product_id
\* are both classified numeric; when either is coded the rows are
\* translated and go on as name-based rows, never down the numeric path.
C20_NumericPathOnlyForNumericIds ==
    \A n \in Returned :
        has_id_cols(RenamedCols) =>
            /\ \A i \in 1..Len(runs[n].items) :
                   /\ "product_id" \in DOMAIN runs[n].items[i] => BothNumeric
                   /\ ~BothNumeric => "product_name" \in DOMAIN runs[n].items[i]
            /\ \A o \in 1..Len(runs[n].orders) :
                   /\ "customer_id" \in DOMAIN runs[n].orders[o] => BothNumeric
                   /\ ~BothNumeric => "customer_email" \in DOMAIN runs[n].orders[o]

\* the raw customer rows of run n's result
CustomersKept(n) == {runs[n].src[i] : i \in 1..Len(runs[n].src)}

\* the raw customer rows with the email value of an earlier row
EmailDuplicates ==
    {s \in 1..Len(customers.rows) :
        \E e \in 1..(s - 1) : customers.rows[e]["email"] = customers.rows[s]["email"]}

\* raw customer row s lacks an email, a first_name or a last_name
MissingRequired(s) ==
    \E c \in {"email", "first_name", "last_name"} : Blank(customers.rows[s][c])

\* the raw rows that reach the phone and date steps: not duplicates, with
\* an email
PastEmail ==
    {s \in 1..Len(customers.rows) \ EmailDuplicates : ~Blank(customers.rows[s]["email"])}

NoPhone(s) == normalize_phone_to_india(customers.rows[s]["phone"]) = EMPTY

NoDate(s) == parse_date_to_iso(customers.rows[s]["registration_date"]) = EMPTY

\* the date of the day of the n-th call
DayOfRun(n) == IF n = 1 THEN Day1 ELSE Day2

\* C22: transform_customers never drops a row for its phone or its
\* registration_date: a row is removed only for a blank email, first_name
\* or last_name or for a duplicate email; a kept row whose phone normalizes
\* to "" has an empty phone, one whose registration_date is null or
\* unparseable has the date of the day; each such defect adds exactly one
\* to missing_handled, as does each row dropped for a blank field.
C22_PhoneAndDateNeverDrop ==
    \A n \in 1..Len(runs) :
        /\ \A s \in 1..Len(customers.rows) :
               s \notin CustomersKept(n) => MissingRequired(s) \/ s \in EmailDuplicates
        /\ \A i \in 1..Len(runs[n].df) :
               /\ NoPhone(runs[n].src[i]) => runs[n].df[i]["phone"] = EMPTY
               /\ NoDate(runs[n].src[i]) =>
                      runs[n].df[i]["registration_date"] = DayOfRun(n)
        /\ runs[n].stats.missing_handled =
               Cardinality({s \in 1..Len(customers.rows) \ EmailDuplicates :
                               MissingRequired(s)})
               + Cardinality({s \in PastEmail : NoPhone(s)})
               + Cardinality({s \in PastEmail : NoDate(s)})

\* a row without a usable phone and without a parseable date that was
\* returned, counted twice, by the second call
C22_Witness ==
    /\ Len(runs) = 2
    /\ Len(runs[2].df) = 2
    /\ NoPhone(runs[2].src[1]) /\ NoDate(runs[2].src[1])
    /\ ~NoPhone(runs[2].src[2]) /\ ~NoDate(runs[2].src[2])
    /\ runs[2].df[1]["registration_date"] = Day2
    /\ runs[2].stats.missing_handled = 2

\* the orders of run n that were given the default status
PendingOrders(n) ==
    {o \in 1..Len(runs[n].orders) : runs[n].orders[o]["status"] = DEFAULT_ORDER_STATUS}

\* C24: row accounting of transform_sales: processed is the number of input
\* rows, and every input row that does not become a LineItem is counted
\* once, in duplicates_removed when removed as a duplicate and in
\* missing_handled otherwise, so that processed = duplicates_removed +
\* (missing_handled - orders given the default status) + LineItems
\* returned, on the name-based, numeric and translated paths alike.
C24_RowAccounting ==
    \A n \in Returned :
        /\ runs[n].stats.processed = Len(sales.rows)
        /\ runs[n].stats.duplicates_removed = Cardinality(LaterDuplicates)
        /\ runs[n].stats.processed =
               runs[n].stats.duplicates_removed
               + (runs[n].stats.missing_handled - Cardinality(PendingOrders(n)))
               + Len(runs[n].items)

\* C25: the product-price join of transform_sales never multiplies rows:
\* a sales row is behind at most one LineItem, so there are never more
\* LineItems than input rows, also when the product table holds several
\* rows of one product_name or product_id.
C25_JoinKeepsRowCount ==
    \A n \in Returned :
        /\ Len(runs[n].items) <= Len(sales.rows)
        /\ \A i, j \in 1..Len(runs[n].items) :
               runs[n].src[i] = runs[n].src[j] => i = j

\* ------------------------------------------------------------------------
\* Properties of transform_products (checked under SpecProducts)
\* ------------------------------------------------------------------------

\* C14: every row transform_products returns has a stock_quantity that is
\* a non-negative integer, 0 when the raw value is null, empty or does not
\* parse; no returned product has a negative stock_quantity.
C14_StockNonNegative ==
    \A n \in 1..Len(runs) : \A i \in 1..Len(runs[n].df) :
        /\ runs[n].df[i]["stock_quantity"] \in Nat
        /\ ~parses_as_int(products.rows[runs[n].src[i]]["stock_quantity"])
           => runs[n].df[i]["stock_quantity"] = 0

\* the returned rows of run n whose raw stock_quantity is null, empty or
\* does not parse
StockDefaulted(n) ==
    {i \in 1..Len(runs[n].df) :
        ~parses_as_int(products.rows[runs[n].src[i]]["stock_quantity"])}

\* the rows of run n that went for their price: neither returned nor
\* removed as duplicates
PriceDropped(n) ==
    runs[n].stats.processed - runs[n].stats.duplicates_removed - Len(runs[n].df)

\* C21: in transform_products a row whose stock_quantity is null, empty or
\* unparseable gets stock_quantity 0 and adds exactly one to
\* missing_handled; a row whose stock_quantity parses adds nothing (the
\* rows dropped for their price are counted apart).
C21_DefaultedStockCounted ==
    \A n \in 1..Len(runs) :
        /\ \A i \in StockDefaulted(n) : runs[n].df[i]["stock_quantity"] = 0
        /\ runs[n].stats.missing_handled =
               PriceDropped(n) + Cardinality(StockDefaulted(n))

\* C26: in the table transform_products returns no two rows have the same
\* (product_name, category) pair as the output shows it, after the
\* category is title-cased and both fields are trimmed: raw rows that
\* differ in the letter case of the category or in surrounding whitespace
\* alone come back as one product.
C26_ProductPairUnique ==
    \A n \in 1..Len(runs) : \A i, j \in 1..Len(runs[n].df) :
        (/\ runs[n].df[i]["product_name"] = runs[n].df[j]["product_name"]
         /\ runs[n].df[i]["category"] = runs[n].df[j]["category"])
        => i = j

\* ------------------------------------------------------------------------
\* Properties of load_orders_and_items (checked under SpecLoad)
\* ------------------------------------------------------------------------

\* the call has been made
Loaded == Len(runs) = 1

\* the frames handed in hold emails and product names, not ids
NameBasedLoad == "customer_email" \in DOMAIN arg.orders_df[1]

\* the position in orders_df of the Order with order key k
OrderAt(k) == CHOOSE o \in 1..Len(arg.orders_df) : arg.orders_df[o]["order_key"] = k

\* the customer of Order o is resolvable: the store has a customer with
\* its email (an id-based frame brings its customer ids)
CustomerFound(o) ==
    NameBasedLoad =>
        \E c \in 1..Len(store.customers) :
            store.customers[c].email = arg.orders_df[o]["customer_email"]

\* the store refuses Order o: no such customer id, or a total that is not a
\* decimal number
Refused(o) ==
    \/ ~NameBasedLoad /\ \A c \in 1..Len(store.customers) :
           store.customers[c].customer_id # arg.orders_df[o]["customer_id"]
    \/ float(arg.orders_df[o]["subtotal"]).inf

\* the insert of Order o fails: the store refuses it, or (PostgreSQL) has
\* refused an earlier order of the same transaction
InsertFailed(o) ==
    \/ Refused(o)
    \/ /\ store.dialect = "postgresql"
       /\ \E p \in 1..(o - 1) : CustomerFound(p) /\ Refused(p)

\* Order o is not inserted: its customer is not resolvable, or its insert
\* fails
NotInserted(o) == ~CustomerFound(o) \/ InsertFailed(o)

\* the product of LineItem i cannot be resolved: the frame names it and
\* the store has no product of that name (an id-based frame brings its
\* product ids, there is nothing to resolve)
ProductUnresolved(i) ==
    NameBasedLoad /\ \A p \in 1..Len(store.products) :
        store.products[p].product_name # arg.order_items_df[i]["product_name"]

\* the LineItems the call has to leave out
LeftOut ==
    {i \in 1..Len(arg.order_items_df) :
        ProductUnresolved(i) \/ NotInserted(OrderAt(arg.order_items_df[i]["order_key"]))}

\* C23: in load_orders_and_items every inserted order item carries the
\* order_id the store generated for the inserted Order of the same
\* order_key; a LineItem whose Order was not inserted (customer not
\* resolvable, or the order insert failed) or whose product cannot be
\* resolved is never inserted and adds one to the load missing_handled, so
\* that order_items_loaded never counts an item without a loaded parent
\* order.
C23_ItemsFollowLoadedOrders ==
    Loaded =>
        /\ \A it \in 1..Len(store.order_items) :
               /\ \E o \in 1..Len(store.orders) :
                      /\ store.orders[o].order_id = store.order_items[it].order_id
                      /\ store.orders[o].order_key = store.order_items[it].order_key
               /\ \E i \in 1..Len(arg.order_items_df) \ LeftOut :
                      arg.order_items_df[i]["order_key"] = store.order_items[it].order_key
        /\ runs[1].kind = "ok" =>
               /\ runs[1].stats.missing_handled =
                      Cardinality({o \in 1..Len(arg.orders_df) : ~CustomerFound(o)})
                      + Cardinality(LeftOut)
               /\ runs[1].stats.order_items_loaded
                      <= Len(arg.order_items_df) - Cardinality(LeftOut)
               /\ runs[1].stats.orders_loaded =
                      Cardinality({o \in 1..Len(arg.orders_df) : ~NotInserted(o)})

\* two orders handed in, one of a customer the store does not have: the
\* item of the other is in the store under the id generated for its
\* order, the item of the first is left out and counted
C23_Witness ==
    /\ Loaded
    /\ runs[1].kind = "ok"
    /\ Len(arg.orders_df) = 2
    /\ Len(arg.order_items_df) = 2
    /\ Cardinality(LeftOut) = 1
    /\ Len(store.order_items) = 1
    /\ store.order_items[1].order_id = 2
    /\ runs[1].stats.order_items_loaded = 1
    /\ runs[1].stats.missing_handled = 2

====
